---------------------------- MODULE Spec2Model ----------------------------
(***************************************************************************)
(* Model of the inventory route handler of SteamShare                      *)
(* (src/unnamed/part_000): the GET handler, its identifier resolver        *)
(* (getInventoryAppId / getContextId), the required-field validator        *)
(* (isValidInventoryItem), the asset/description merge, the appid filter,  *)
(* the rarity sort and the two response envelopes.                         *)
(*                                                                         *)
(* JavaScript values are records [t, n, s]: t is the runtime type tag, n   *)
(* the numeric payload, s the string payload (a tuple of one-character     *)
(* strings).  One request is handled per behaviour; the only suspension    *)
(* point of the handler is the await on fetch.                             *)
(***************************************************************************)
EXTENDS Integers, Sequences, FiniteSets, TLC

VARIABLES
    pc,         \* position of the handler: "start", "fetching", "done"
    request,    \* the inbound NextRequest: cookie and query parameters
    isDev,      \* config.isDev
    upstream,   \* what the external service answers to the outbound call
    locals,     \* the handler's locals that live across the await
    outbound,   \* the sequence of fetch calls issued so far
    items,      \* the local `items` (merge result before filter and sort)
    response    \* the NextResponse returned, NoResponse until then

vars == <<pc, request, isDev, upstream, locals, outbound, items, response>>

----------------------------------------------------------------------------
(* Bounds of the model *)

MaxAssets == 3
MaxDescs == 2

(* Program constants *)

PageSizeCap == 100
RevalidateSeconds == 300

----------------------------------------------------------------------------
(* JavaScript values *)

Undef == [t |-> "undefined", n |-> 0, s |-> <<>>]
Null == [t |-> "null", n |-> 0, s |-> <<>>]
NaN == [t |-> "NaN", n |-> 0, s |-> <<>>]
Num(k) == [t |-> "number", n |-> k, s |-> <<>>]
Str(chars) == [t |-> "string", n |-> 0, s |-> chars]
Bool(b) == [t |-> "boolean", n |-> IF b THEN 1 ELSE 0, s |-> <<>>]
Arr(len) == [t |-> "array", n |-> len, s |-> <<>>]

\* ToBoolean: what `!x`, `x && y`, `x || y`, `x ? a : b` test
Truthy(v) ==
    CASE v.t = "number" -> v.n # 0
      [] v.t = "string" -> v.s # <<>>
      [] v.t = "boolean" -> v.n = 1
      [] v.t = "array" -> TRUE
      [] OTHER -> FALSE

\* typeof x === 'number' (NaN is a number)
IsNumberType(v) == v.t \in {"number", "NaN"}

\* Array.isArray(x)
IsArray(v) == v.t = "array"

\* x || y
OrElse(x, y) == IF Truthy(x) THEN x ELSE y

\* x > k for a number x (any comparison with NaN is false)
GreaterThan(x, k) == x.t = "number" /\ x.n > k

\* Math.min(x, k): NaN if x is NaN
MathMin(x, k) == IF x.t = "NaN" THEN NaN ELSE Num(IF x.n < k THEN x.n ELSE k)

\* JSON.stringify of a property value: NaN becomes null, undefined drops the key
\* (a dropped key is kept as Undef)
JsonValue(v) == IF v.t = "NaN" THEN Null ELSE v

----------------------------------------------------------------------------
(* Strings: parseInt, Number.prototype.toString, encodeURIComponent,       *)
(* String.prototype.localeCompare                                          *)

DigitChars == <<"0", "1", "2", "3", "4", "5", "6", "7", "8", "9">>

\* value of a character as a digit; 99 when it is no digit in any radix
DigitVal(c) ==
    CASE c = "0" -> 0 [] c = "1" -> 1 [] c = "2" -> 2 [] c = "3" -> 3
      [] c = "4" -> 4 [] c = "5" -> 5 [] c = "6" -> 6 [] c = "7" -> 7
      [] c = "8" -> 8 [] c = "9" -> 9
      [] c \in {"a", "A"} -> 10 [] c \in {"b", "B"} -> 11
      [] c \in {"c", "C"} -> 12 [] c \in {"d", "D"} -> 13
      [] c \in {"e", "E"} -> 14 [] c \in {"f", "F"} -> 15
      [] OTHER -> 99

RECURSIVE SkipSpace(_)
SkipSpace(chars) ==
    IF chars # <<>> /\ Head(chars) = " " THEN SkipSpace(Tail(chars)) ELSE chars

\* longest prefix of digits in the radix: [seen, value]
RECURSIVE ParseDigits(_, _, _, _)
ParseDigits(chars, radix, acc, seen) ==
    IF chars # <<>> /\ DigitVal(Head(chars)) < radix
    THEN ParseDigits(Tail(chars), radix, acc * radix + DigitVal(Head(chars)), TRUE)
    ELSE [seen |-> seen, value |-> acc]

\* parseInt(string) with no radix argument: leading white space, a sign,
\* an optional 0x prefix, then the longest digit prefix; NaN when there is none
ParseInt(chars) ==
    LET trimmed == SkipSpace(chars)
        signed == trimmed # <<>> /\ Head(trimmed) \in {"-", "+"}
        negative == trimmed # <<>> /\ Head(trimmed) = "-"
        body == IF signed THEN Tail(trimmed) ELSE trimmed
        hex == Len(body) >= 2 /\ body[1] = "0" /\ body[2] \in {"x", "X"}
        digits == IF hex THEN SubSeq(body, 3, Len(body)) ELSE body
        parsed == ParseDigits(digits, IF hex THEN 16 ELSE 10, 0, FALSE)
    IN  IF ~parsed.seen THEN NaN
        ELSE Num(IF negative THEN 0 - parsed.value ELSE parsed.value)

RECURSIVE NatToChars(_)
NatToChars(k) ==
    IF k < 10 THEN <<DigitChars[k + 1]>>
    ELSE NatToChars(k \div 10) \o <<DigitChars[(k % 10) + 1]>>

\* Number.prototype.toString() / String(x) of a number
NumberToChars(v) ==
    IF v.t = "NaN" THEN <<"N", "a", "N">>
    ELSE IF v.n < 0 THEN <<"-">> \o NatToChars(0 - v.n)
    ELSE NatToChars(v.n)

\* String(x) applied by a template literal or by encodeURIComponent
ToChars(v) ==
    CASE v.t = "string" -> v.s
      [] v.t = "undefined" -> <<"u", "n", "d", "e", "f", "i", "n", "e", "d">>
      [] v.t = "null" -> <<"n", "u", "l", "l">>
      [] v.t \in {"number", "NaN"} -> NumberToChars(v)
      [] OTHER -> <<>>

\* characters encodeURIComponent leaves alone
Unreserved(c) ==
    \/ DigitVal(c) < 10
    \/ c \in {"a", "b", "c", "d", "e", "f", "i", "l", "n", "u", "x", "y",
              "A", "B", "C", "D", "E", "F", "N", "-", "_", ".", "!", "~",
              "*", "'", "(", ")"}

PercentCode(c) ==
    CASE c = " " -> <<"%", "2", "0">>
      [] c = "|" -> <<"%", "7", "C">>
      [] c = "+" -> <<"%", "2", "B">>
      [] c = "%" -> <<"%", "2", "5">>
      [] OTHER -> <<"%", "3", "F">>

RECURSIVE EncodeChars(_)
EncodeChars(chars) ==
    IF chars = <<>> THEN <<>>
    ELSE (IF Unreserved(Head(chars)) THEN <<Head(chars)>> ELSE PercentCode(Head(chars)))
         \o EncodeChars(Tail(chars))

\* encodeURIComponent(x): x is first converted to a string
EncodeURIComponent(v) == Str(EncodeChars(ToChars(v)))


\* primary collation weight of a character: punctuation, then digits, then
\* letters without regard to case
PrimaryWeight(c) ==
    CASE DigitVal(c) < 99 -> DigitVal(c)
      [] c \in {"x", "X"} -> 33
      [] c \in {"y", "Y"} -> 34
      [] OTHER -> 0 - 1

IsUpper(c) == c \in {"A", "B", "C", "D", "E", "F", "X", "Y"}

RECURSIVE ComparePrimary(_, _)
ComparePrimary(a, b) ==
    IF a = <<>> THEN (IF b = <<>> THEN 0 ELSE 0 - 1)
    ELSE IF b = <<>> THEN 1
    ELSE IF PrimaryWeight(Head(a)) < PrimaryWeight(Head(b)) THEN 0 - 1
    ELSE IF PrimaryWeight(Head(a)) > PrimaryWeight(Head(b)) THEN 1
    ELSE ComparePrimary(Tail(a), Tail(b))

\* case level, consulted only between strings of equal primary weights:
\* lower case sorts before upper case
RECURSIVE CompareCase(_, _)
CompareCase(a, b) ==
    IF a = <<>> \/ b = <<>> THEN 0
    ELSE IF ~IsUpper(Head(a)) /\ IsUpper(Head(b)) THEN 0 - 1
    ELSE IF IsUpper(Head(a)) /\ ~IsUpper(Head(b)) THEN 1
    ELSE CompareCase(Tail(a), Tail(b))

\* a.localeCompare(b) in the default locale: negative, zero or positive
LocaleCompare(a, b) ==
    IF ComparePrimary(a, b) # 0 THEN ComparePrimary(a, b) ELSE CompareCase(a, b)

----------------------------------------------------------------------------
(* Identifier resolver *)

CommunityAppId == <<"7", "5", "3">>
KnownGameAppIds == {<<"7", "3", "0">>, <<"5", "7", "0">>, <<"4", "4", "0">>}

\* getContextId(appId)
getContextId(appId) ==
    IF ~Truthy(appId) \/ appId = Str(CommunityAppId) THEN <<"6">> ELSE <<"2">>

\* getInventoryAppId(appId)
getInventoryAppId(appId) ==
    IF ~Truthy(appId) THEN CommunityAppId
    ELSE IF appId.s \in KnownGameAppIds THEN appId.s
    ELSE IF ParseInt(appId.s).t = "NaN" THEN CommunityAppId
    ELSE appId.s

----------------------------------------------------------------------------
(* Required-field validation and the asset/description merge *)

\* isValidInventoryItem(item)
isValidInventoryItem(item) ==
    /\ Truthy(item.appid)
    /\ Truthy(item.contextid)
    /\ Truthy(item.assetid)
    /\ Truthy(item.classid)
    /\ Truthy(item.instanceid)
    /\ Truthy(item.amount)
    /\ Truthy(item.name)
    /\ Truthy(item.market_hash_name)
    /\ Truthy(item.market_name)
    /\ Truthy(item.type)
    /\ IsNumberType(item.tradable)
    /\ IsNumberType(item.marketable)
    /\ IsNumberType(item.commodity)
    /\ IsNumberType(item.market_tradable_restriction)
    /\ IsArray(item.descriptions)
    /\ IsArray(item.tags)
    /\ Truthy(item.icon_url)

\* the predicate of descriptions.find(...)
DescriptionMatches(desc, asset) ==
    desc.classid = asset.classid /\ desc.instanceid = asset.instanceid

\* variant of the lookup that keeps the last match instead of the first
FindDescriptionLast(descriptions, asset) ==
    LET hits == {i \in 1..Len(descriptions) : DescriptionMatches(descriptions[i], asset)}
    IN  IF hits = {} THEN 0 ELSE CHOOSE i \in hits : \A j \in hits : i >= j

\* descriptions.find(...): index of the first match, 0 for undefined
FindDescription(descriptions, asset) ==
    LET hits == {i \in 1..Len(descriptions) : DescriptionMatches(descriptions[i], asset)}
    IN  IF hits = {} THEN 0 ELSE CHOOSE i \in hits : \A j \in hits : i <= j

\* { ...description, assetid, amount, contextid, market_hash_name: encodeURIComponent(..) }
MergeItem(asset, description) ==
    [appid |-> description.appid,
     classid |-> description.classid,
     instanceid |-> description.instanceid,
     name |-> description.name,
     market_name |-> description.market_name,
     type |-> description.type,
     tradable |-> description.tradable,
     marketable |-> description.marketable,
     commodity |-> description.commodity,
     market_tradable_restriction |-> description.market_tradable_restriction,
     descriptions |-> description.descriptions,
     tags |-> description.tags,
     icon_url |-> description.icon_url,
     name_color |-> description.name_color,
     assetid |-> asset.assetid,
     amount |-> asset.amount,
     contextid |-> asset.contextid,
     market_hash_name |-> EncodeURIComponent(description.market_hash_name)]

\* the callback of assets.map(...): <<item>>, or <<>> for null
MapAsset(asset, descriptions) ==
    LET i == FindDescription(descriptions, asset)
    IN  IF i = 0 THEN <<>>
        ELSE IF isValidInventoryItem(MergeItem(asset, descriptions[i]))
             THEN <<MergeItem(asset, descriptions[i])>>
             ELSE <<>>

\* assets.map(...).filter(item => item !== null)
RECURSIVE MergeAssets(_, _)
MergeAssets(assets, descriptions) ==
    IF assets = <<>> THEN <<>>
    ELSE MapAsset(Head(assets), descriptions) \o MergeAssets(Tail(assets), descriptions)

\* appId ? items.filter(item => item.appid.toString() === appId) : items
FilterByAppId(merged, appId) ==
    IF Truthy(appId)
    THEN SelectSeq(merged, LAMBDA item : ToChars(item.appid) = appId.s)
    ELSE merged

----------------------------------------------------------------------------
(* Sort by rarity colour, then by name *)

\* variant of the comparator with the colour operands not swapped
SortCompareAscending(a, b) ==
    IF Truthy(a.name_color) /\ Truthy(b.name_color)
    THEN LocaleCompare(a.name_color.s, b.name_color.s)
    ELSE IF Truthy(a.name_color) THEN 0 - 1
    ELSE IF Truthy(b.name_color) THEN 1
    ELSE LocaleCompare(a.name.s, b.name.s)

\* the comparator passed to filteredItems.sort
SortCompare(a, b) ==
    IF Truthy(a.name_color) /\ Truthy(b.name_color)
    THEN LocaleCompare(b.name_color.s, a.name_color.s)
    ELSE IF Truthy(a.name_color) THEN 0 - 1
    ELSE IF Truthy(b.name_color) THEN 1
    ELSE LocaleCompare(a.name.s, b.name.s)

\* insertion of the next element into the sorted prefix: before the first
\* element it compares less than, so after every element it ties with
InsertSorted(sorted, x) ==
    LET later == {i \in 1..Len(sorted) : SortCompare(x, sorted[i]) < 0}
        at == IF later = {} THEN Len(sorted) + 1
              ELSE CHOOSE i \in later : \A j \in later : i <= j
    IN  SubSeq(sorted, 1, at - 1) \o <<x>> \o SubSeq(sorted, at, Len(sorted))

\* Array.prototype.sort(comparator): a stable sort
RECURSIVE SortFrom(_, _)
SortFrom(sorted, rest) ==
    IF rest = <<>> THEN sorted
    ELSE SortFrom(InsertSorted(sorted, Head(rest)), Tail(rest))

SortItems(list) == SortFrom(<<>>, list)

----------------------------------------------------------------------------
(* Request parsing *)

\* request.cookies.get("steam_session")?.value is truthy
HasSessionCookieValue(req) == req.cookie.kind \in {"garbage", "json"}

\* JSON.parse(sessionCookie.value) throws a SyntaxError
SessionParseThrows(req) == req.cookie.kind = "garbage"

\* validateSteamSession(userData): the verdict of the external validator
validateSteamSession(userData) == userData.valid

\* searchParams.get("steamid") || userData.steamid
SteamIdOf(req) == OrElse(req.steamid, req.cookie.steamid)

\* parseInt(searchParams.get("page") || "1")
PageOf(req) == ParseInt(OrElse(req.page, Str(<<"1">>)).s)

\* variant of the page size without the Math.min cap
LimitOfUncapped(req) == ParseInt(OrElse(req.limit, Str(<<"1", "0", "0">>)).s)

\* Math.min(parseInt(searchParams.get("limit") || "100"), 100)
LimitOf(req) == MathMin(ParseInt(OrElse(req.limit, Str(<<"1", "0", "0">>)).s), PageSizeCap)

\* variant of the cursor parameter without the page > 1 test
StartAssetIdParamAnyPage(page, req) ==
    IF Truthy(req.start_assetid) THEN req.start_assetid ELSE Undef

\* the start_assetid query parameter of the outbound URL, Undef when not appended
StartAssetIdParam(page, req) ==
    IF GreaterThan(page, 1) /\ Truthy(req.start_assetid) THEN req.start_assetid ELSE Undef

\* the fetch call: URL path and query, and the next: {revalidate, tags} options
InventoryCall(req) ==
    [steamId |-> ToChars(SteamIdOf(req)),
     appId |-> getInventoryAppId(req.appid),
     contextId |-> getContextId(req.appid),
     l |-> "english",
     count |-> NumberToChars(LimitOf(req)),
     start_assetid |-> StartAssetIdParam(PageOf(req), req),
     revalidate |-> RevalidateSeconds,
     tag |-> ToChars(SteamIdOf(req))]

NoLocals ==
    [steamId |-> Undef, page |-> Undef, limit |-> Undef, appId |-> Undef,
     inventoryAppId |-> <<>>, contextId |-> <<>>]

LocalsOf(req) ==
    [steamId |-> SteamIdOf(req), page |-> PageOf(req), limit |-> LimitOf(req),
     appId |-> req.appid,
     inventoryAppId |-> getInventoryAppId(req.appid),
     contextId |-> getContextId(req.appid)]

----------------------------------------------------------------------------
(* Responses *)

NoBody ==
    [success |-> Undef, error |-> "", details |-> "", hasItems |-> FALSE,
     items |-> <<>>, total_count |-> Undef, page |-> Undef, limit |-> Undef,
     total_pages |-> Undef, has_more |-> Undef, next_start_asset_id |-> Undef,
     app_id |-> <<>>, context_id |-> <<>>]

NoResponse == [status |-> 0, cacheControl |-> "", cacheTags |-> <<>>, body |-> NoBody]

\* NextResponse.json({ error: message }, { status })
PlainError(message, status) ==
    [status |-> status, cacheControl |-> "", cacheTags |-> <<>>,
     body |-> [NoBody EXCEPT !.error = message]]

\* the catch block: the error envelope, status 500, Cache-Control: no-store
CatchResponse(message, dev) ==
    [status |-> 500, cacheControl |-> "no-store", cacheTags |-> <<>>,
     body |-> [NoBody EXCEPT !.success = Bool(FALSE),
                             !.error = "Failed to fetch inventory",
                             !.details = IF dev THEN message ELSE "",
                             !.hasItems = TRUE,
                             !.total_count = Num(0)]]

\* Math.ceil(total / limit), as JSON.stringify writes it (NaN and Infinity
\* are written null)
TotalPages(total, limit) ==
    IF limit.t = "NaN" \/ limit.n = 0 THEN Null
    ELSE IF limit.n > 0 THEN Num((total.n + limit.n - 1) \div limit.n)
    ELSE Num(0 - (total.n \div (0 - limit.n)))

\* inventoryData.assets || [], inventoryData.descriptions || []
ListOrEmpty(field) == IF field.present THEN field.list ELSE <<>>

\* the x-cache-tags header: user-{steamId}-inventory[,app-{appId}-inventory]
CacheTags(loc) ==
    <<<<"user", ToChars(loc.steamId)>>>>
    \o (IF Truthy(loc.appId) THEN <<<<"app", loc.appId.s>>>> ELSE <<>>)

\* the success envelope with its cache headers
SuccessResponse(loc, data) ==
    LET total == OrElse(data.total_inventory_count, Num(0))
        merged == MergeAssets(ListOrEmpty(data.assets), ListOrEmpty(data.descriptions))
    IN  [status |-> 200,
         cacheControl |-> "s-maxage=300, stale-while-revalidate",
         cacheTags |-> CacheTags(loc),
         body |-> [NoBody EXCEPT !.success = Bool(TRUE),
                                 !.hasItems = TRUE,
                                 !.items = SortItems(FilterByAppId(merged, loc.appId)),
                                 !.total_count = total,
                                 !.page = JsonValue(loc.page),
                                 !.limit = JsonValue(loc.limit),
                                 !.total_pages = TotalPages(total, loc.limit),
                                 !.has_more = JsonValue(data.more_items),
                                 !.next_start_asset_id = JsonValue(data.last_assetid),
                                 !.app_id = loc.inventoryAppId,
                                 !.context_id = loc.contextId]]

----------------------------------------------------------------------------
(* What the external service does with the outbound call *)

\* fetch() rejects: a network error
FetchRejects(u) == u.kind = "reject"

\* !inventoryResponse.ok
ResponseNotOk(u) == u.kind = "http" /\ ~u.ok

\* inventoryResponse.json() rejects, or the body is JSON null and reading
\* inventoryData.error throws a TypeError
BodyThrows(u) == u.kind = "http" /\ u.ok /\ u.body \in {"not-json", "null"}

\* variant of the handler that never looks at inventoryData.error
SteamErrorIgnored(u) == FALSE

\* if (inventoryData.error)
SteamErrorReported(u) ==
    u.kind = "http" /\ u.ok /\ u.body = "object" /\ Truthy(u.data.error)

----------------------------------------------------------------------------
(* Inputs: requests and upstream answers *)

SeqsUpTo(S, k) == UNION {[1..m -> S] : m \in 0..k}

\* asset ids are unique within one inventory page
DistinctSeqsUpTo(S, k) ==
    {q \in SeqsUpTo(S, k) : \A i, j \in 1..Len(q) : i # j => q[i] # q[j]}

RawAsset(assetid, classid) ==
    [appid |-> Num(730), contextid |-> Str(<<"2">>), assetid |-> Str(assetid),
     classid |-> Str(classid), instanceid |-> Str(<<"0">>), amount |-> Str(<<"1">>)]

RawDescription(appid, classid, name, color) ==
    [appid |-> Num(appid), classid |-> Str(classid), instanceid |-> Str(<<"0">>),
     name |-> Str(name), market_hash_name |-> Str(name \o <<" ", "|">>),
     market_name |-> Str(name), type |-> Str(<<"C">>),
     tradable |-> Num(1), marketable |-> Num(0), commodity |-> Num(0),
     market_tradable_restriction |-> Num(7),
     descriptions |-> Arr(0), tags |-> Arr(1), icon_url |-> Str(<<"i">>),
     name_color |-> color]

AssetSet ==
    {RawAsset(<<"1", "1">>, <<"1">>), RawAsset(<<"1", "2">>, <<"2">>),
     RawAsset(<<"1", "3">>, <<"1">>), RawAsset(<<"1", "4">>, <<"3">>)}

DescriptionSet ==
    {RawDescription(730, <<"1">>, <<"b">>, Str(<<"D", "2">>)),
     RawDescription(730, <<"2">>, <<"a">>, Undef),
     RawDescription(730, <<"1">>, <<"B">>, Str(<<>>)),
     RawDescription(730, <<"3">>, <<"a", "b">>, Str(<<"B", "0">>)),
     RawDescription(753, <<"2">>, <<"x">>, Str(<<"D", "2">>)),
     RawDescription(730, <<"3">>, <<"a">>, Undef)}

BadValues == {Undef, Null, Str(<<>>), Num(0), Str(<<"1">>)}

BaseAsset == RawAsset(<<"1", "1">>, <<"1">>)
BaseDescription == RawDescription(730, <<"1">>, <<"b">>, Str(<<"D", "2">>))

AssetVariants ==
    {BaseAsset} \cup
    {[BaseAsset EXCEPT ![f] = v] :
        f \in {"contextid", "assetid", "classid", "instanceid", "amount"},
        v \in BadValues}

DescriptionVariants ==
    {BaseDescription} \cup
    {[BaseDescription EXCEPT ![f] = v] :
        f \in {"appid", "classid", "instanceid", "name", "market_hash_name",
               "market_name", "type", "tradable", "marketable", "commodity",
               "market_tradable_restriction", "descriptions", "tags", "icon_url"},
        v \in BadValues}

Present(list) == [present |-> TRUE, list |-> list]
Absent == [present |-> FALSE, list |-> <<>>]

EmptyData ==
    [error |-> Undef, assets |-> Absent, descriptions |-> Absent,
     total_inventory_count |-> Undef, more_items |-> Undef, last_assetid |-> Undef]

Page(assets, descriptions) ==
    [kind |-> "http", ok |-> TRUE, status |-> 200, body |-> "object",
     data |-> [EmptyData EXCEPT !.assets = assets, !.descriptions = descriptions]]

OnePage ==
    [kind |-> "http", ok |-> TRUE, status |-> 200, body |-> "object",
     data |-> [error |-> Undef,
               assets |-> Present(<<BaseAsset>>),
               descriptions |-> Present(<<BaseDescription>>),
               total_inventory_count |-> Num(250),
               more_items |-> Num(1),
               last_assetid |-> Str(<<"1", "1">>)]]

Failure(kind, ok, status, body, error) ==
    [kind |-> kind, ok |-> ok, status |-> status, body |-> body,
     data |-> [EmptyData EXCEPT !.error = error]]

PrivateProfile == Str(<<"P">>)

UpstreamOutcomes ==
    {OnePage,
     Page(Absent, Absent),
     Failure("reject", FALSE, 0, "not-json", Undef),
     Failure("http", FALSE, 403, "not-json", Undef),
     Failure("http", FALSE, 500, "object", Undef),
     Failure("http", TRUE, 200, "not-json", Undef),
     Failure("http", TRUE, 200, "null", Undef),
     Failure("http", TRUE, 200, "object", PrivateProfile),
     Failure("http", TRUE, 200, "object", Str(<<>>)),
     Failure("http", TRUE, 200, "object", Null)}

Param(chars) == Str(chars)

Cookie(kind, steamid, valid) == [kind |-> kind, steamid |-> steamid, valid |-> valid]

Cookies ==
    {Cookie("absent", Undef, FALSE), Cookie("empty", Undef, FALSE),
     Cookie("garbage", Undef, FALSE)}
    \cup {Cookie("json", id, ok) : id \in {Undef, Str(<<"7">>)}, ok \in BOOLEAN}

SessionCookie == Cookie("json", Str(<<"7">>), TRUE)

PlainRequest ==
    [cookie |-> SessionCookie, steamid |-> Null, page |-> Null, limit |-> Null,
     appid |-> Null, start_assetid |-> Null]

PageParams ==
    {Null, Param(<<>>), Param(<<"1">>), Param(<<"2">>), Param(<<"0">>),
     Param(<<"-", "2">>), Param(<<"x">>), Param(<<"3", "x">>)}

LimitParams ==
    {Null, Param(<<>>), Param(<<"5", "0">>), Param(<<"1", "0", "0">>),
     Param(<<"1", "0", "1">>), Param(<<"5", "0", "0">>), Param(<<"0">>),
     Param(<<"-", "5">>), Param(<<"x">>), Param(<<"0", "x", "7", "a">>),
     Param(<<" ", "2", "0", "0", "x">>)}

AppIdParams ==
    {Null, Param(<<>>), Param(CommunityAppId), Param(<<"7", "3", "0">>),
     Param(<<"5", "7", "0">>), Param(<<"4", "4", "0">>), Param(<<"1", "0">>),
     Param(<<"x">>), Param(<<"-", "5">>), Param(<<"7", "x">>)}

CursorParams == {Null, Param(<<>>), Param(<<"9", "9", "9">>)}

\* sessions and failure paths: every cookie against every upstream outcome
InitSession ==
    /\ request \in {[PlainRequest EXCEPT !.cookie = c, !.steamid = id] :
                       c \in Cookies, id \in {Null, Param(<<"9">>)}}
    /\ isDev \in BOOLEAN
    /\ upstream \in UpstreamOutcomes

\* query parameters of an authenticated request
InitParams ==
    /\ request \in {[PlainRequest EXCEPT !.page = p, !.limit = l, !.appid = a,
                                         !.start_assetid = c] :
                       p \in PageParams, l \in LimitParams, a \in AppIdParams,
                       c \in CursorParams}
    /\ isDev = FALSE
    /\ upstream = OnePage

\* asset and description lists of a page
InitLists ==
    /\ request \in {[PlainRequest EXCEPT !.appid = a] :
                       a \in {Null, Param(<<"7", "3", "0">>)}}
    /\ isDev = FALSE
    /\ upstream \in {Page(Present(a), Present(d)) :
                        a \in DistinctSeqsUpTo(AssetSet, MaxAssets),
                        d \in SeqsUpTo(DescriptionSet, MaxDescs)}

\* one asset against one description, each with at most one damaged field
InitFields ==
    /\ request = PlainRequest
    /\ isDev = FALSE
    /\ upstream \in {Page(Present(<<a>>), Present(<<d>>)) :
                        a \in AssetVariants, d \in DescriptionVariants}

\* pagination metadata of a page, present or omitted
InitMetadata ==
    /\ request \in {[PlainRequest EXCEPT !.limit = l] :
                       l \in {Null, Param(<<"3", "0">>), Param(<<"0">>),
                              Param(<<"-", "5">>), Param(<<"x">>)}}
    /\ isDev = FALSE
    /\ upstream \in
         {[kind |-> "http", ok |-> TRUE, status |-> 200, body |-> "object",
           data |-> [error |-> Undef, assets |-> a, descriptions |-> d,
                     total_inventory_count |-> total, more_items |-> more,
                     last_assetid |-> last]] :
             a \in {Absent, Present(<<BaseAsset>>)},
             d \in {Absent, Present(<<BaseDescription>>)},
             total \in {Undef, Num(0), Num(250)},
             more \in {Undef, Bool(TRUE), Bool(FALSE), Num(1)},
             last \in {Undef, Str(<<"1", "1">>)}}

Init ==
    /\ pc = "start"
    /\ locals = NoLocals
    /\ outbound = <<>>
    /\ items = <<>>
    /\ response = NoResponse
    /\ \/ InitSession
       \/ InitParams
       \/ InitLists
       \/ InitFields
       \/ InitMetadata

----------------------------------------------------------------------------
(* The GET handler *)

Respond(r) ==
    /\ pc' = "done"
    /\ response' = r
    /\ UNCHANGED <<request, isDev, upstream, locals, outbound, items>>

\* lines 103-106: no steam_session cookie value
GETUnauthorized ==
    /\ pc = "start"
    /\ ~HasSessionCookieValue(request)
    /\ Respond(PlainError("Unauthorized", 401))

\* line 108 throws, lines 240-256 catch
GETSessionParseThrows ==
    /\ pc = "start"
    /\ HasSessionCookieValue(request)
    /\ SessionParseThrows(request)
    /\ Respond(CatchResponse("SyntaxError", isDev))

\* lines 109-111
GETInvalidSession ==
    /\ pc = "start"
    /\ HasSessionCookieValue(request)
    /\ ~SessionParseThrows(request)
    /\ ~validateSteamSession(request.cookie)
    /\ Respond(PlainError("Invalid session", 401))

\* lines 113-122
GETSteamIdRequired ==
    /\ pc = "start"
    /\ HasSessionCookieValue(request)
    /\ ~SessionParseThrows(request)
    /\ validateSteamSession(request.cookie)
    /\ ~Truthy(SteamIdOf(request))
    /\ Respond(PlainError("Steam ID required", 400))

\* lines 113-155: the outbound call is issued and the handler awaits it
GETFetch ==
    /\ pc = "start"
    /\ HasSessionCookieValue(request)
    /\ ~SessionParseThrows(request)
    /\ validateSteamSession(request.cookie)
    /\ Truthy(SteamIdOf(request))
    /\ pc' = "fetching"
    /\ locals' = LocalsOf(request)
    /\ outbound' = Append(outbound, InventoryCall(request))
    /\ UNCHANGED <<request, isDev, upstream, items, response>>

\* fetch rejects: caught at lines 240-256
GETFetchRejected ==
    /\ pc = "fetching"
    /\ FetchRejects(upstream)
    /\ Respond(CatchResponse("fetch failed", isDev))

\* lines 157-160
GETResponseNotOk ==
    /\ pc = "fetching"
    /\ ResponseNotOk(upstream)
    /\ Respond(CatchResponse("Failed to fetch inventory: status - text", isDev))

\* line 162 or line 165 throws
GETBodyThrows ==
    /\ pc = "fetching"
    /\ BodyThrows(upstream)
    /\ Respond(CatchResponse("body is not an inventory object", isDev))

\* lines 165-167
GETSteamError ==
    /\ pc = "fetching"
    /\ SteamErrorReported(upstream)
    /\ Respond(CatchResponse("Steam API error: message", isDev))

\* lines 169-239
GETSuccess ==
    /\ pc = "fetching"
    /\ upstream.kind = "http" /\ upstream.ok /\ upstream.body = "object"
    /\ ~SteamErrorReported(upstream)
    /\ pc' = "done"
    /\ items' = MergeAssets(ListOrEmpty(upstream.data.assets),
                            ListOrEmpty(upstream.data.descriptions))
    /\ response' = SuccessResponse(locals, upstream.data)
    /\ UNCHANGED <<request, isDev, upstream, locals, outbound>>

Next ==
    \/ GETUnauthorized
    \/ GETSessionParseThrows
    \/ GETInvalidSession
    \/ GETSteamIdRequired
    \/ GETFetch
    \/ GETFetchRejected
    \/ GETResponseNotOk
    \/ GETBodyThrows
    \/ GETSteamError
    \/ GETSuccess

Spec == Init /\ [][Next]_vars

----------------------------------------------------------------------------
(* Vocabulary of the properties *)

Done == pc = "done"
Succeeded == Done /\ response.status = 200
Failed == Done /\ response.status # 200

RawAssets == ListOrEmpty(upstream.data.assets)
RawDescriptions == ListOrEmpty(upstream.data.descriptions)

\* the session is missing or invalid
SessionMissingOrInvalid ==
    \/ request.cookie.kind \in {"absent", "empty", "garbage"}
    \/ request.cookie.kind = "json" /\ ~request.cookie.valid

\* the uniform error envelope
IsErrorEnvelope(body) ==
    /\ body.success = Bool(FALSE)
    /\ body.error = "Failed to fetch inventory"
    /\ body.hasItems /\ body.items = <<>>
    /\ body.total_count = Num(0)
    /\ (body.details # "" => isDev)

\* the first description with the asset's (classid, instanceid) is number j
IsFirstMatch(j, asset) ==
    /\ j \in 1..Len(RawDescriptions)
    /\ RawDescriptions[j].classid = asset.classid
    /\ RawDescriptions[j].instanceid = asset.instanceid
    /\ \A h \in 1..(j - 1) :
          ~(RawDescriptions[h].classid = asset.classid
            /\ RawDescriptions[h].instanceid = asset.instanceid)

HasMatch(asset) == \E j \in 1..Len(RawDescriptions) : IsFirstMatch(j, asset)

\* positions of the raw assets an item can have come from
AssetIndices(item) == {i \in 1..Len(RawAssets) : RawAssets[i].assetid = item.assetid}

\* every required field is present and valid in the raw records
RawComplete(asset, desc) ==
    /\ \A f \in {"contextid", "assetid", "classid", "instanceid", "amount"} :
          Truthy(asset[f])
    /\ \A f \in {"appid", "classid", "instanceid", "name", "market_hash_name",
                 "market_name", "type", "icon_url"} : Truthy(desc[f])
    /\ \A f \in {"tradable", "marketable", "commodity", "market_tradable_restriction"} :
          desc[f].t = "number"
    /\ desc.descriptions.t = "array"
    /\ desc.tags.t = "array"

Coloured(item) == Truthy(item.name_color)

\* the two items tie under the ordering
Ties(a, b) ==
    \/ Coloured(a) /\ Coloured(b) /\ LocaleCompare(a.name_color.s, b.name_color.s) = 0
    \/ ~Coloured(a) /\ ~Coloured(b) /\ LocaleCompare(a.name.s, b.name.s) = 0

\* the page size and page number the caller asked for
RequestedLimit == IF Truthy(request.limit) THEN ParseInt(request.limit.s) ELSE Num(100)
RequestedPage == IF Truthy(request.page) THEN ParseInt(request.page.s) ELSE Num(1)

----------------------------------------------------------------------------
(* Properties *)

\* C1: a request whose session is missing or invalid is answered with status
\* 401, and no outbound call is made while handling it.
C1_InvalidSessionIs401 ==
    SessionMissingOrInvalid =>
        /\ outbound = <<>>
        /\ (Done => response.status = 401)

\* C2: every failure response is the uniform error envelope and carries
\* Cache-Control: no-store.
C2_FailureIsEnvelopeNoStore ==
    Failed => IsErrorEnvelope(response.body) /\ response.cacheControl = "no-store"

\* C3: the resolver returns ("753", "6") for an absent id or "753", (id, "2")
\* for a known catalog or an id that parses as a non-negative integer, and
\* ("753", "6") for every other id.
C3_ResolveTable ==
    outbound # <<>> =>
        LET id == request.appid
            pair == <<outbound[1].appId, outbound[1].contextId>>
        IN  IF ~Truthy(id) \/ id.s = <<"7", "5", "3">>
            THEN pair = <<(<<"7", "5", "3">>), (<<"6">>)>>
            ELSE IF id.s \in {<<"7", "3", "0">>, <<"5", "7", "0">>, <<"4", "4", "0">>}
            THEN pair = <<id.s, (<<"2">>)>>
            ELSE IF ParseInt(id.s).t = "number" /\ ParseInt(id.s).n >= 0
            THEN pair = <<id.s, (<<"2">>)>>
            ELSE pair = <<(<<"7", "5", "3">>), (<<"6">>)>>

\* C4: every item of a success response was built from one raw asset and its
\* matched description with every required field present and valid in the raw
\* records, and an asset whose matched description misses one never appears.
C4_ItemsFullyPopulated ==
    Succeeded =>
        /\ \A k \in 1..Len(response.body.items) :
              \E i \in AssetIndices(response.body.items[k]) :
                 \E j \in 1..Len(RawDescriptions) :
                    /\ IsFirstMatch(j, RawAssets[i])
                    /\ RawComplete(RawAssets[i], RawDescriptions[j])
        /\ \A i \in 1..Len(RawAssets) :
              \A j \in 1..Len(RawDescriptions) :
                 IsFirstMatch(j, RawAssets[i])
                 /\ ~RawComplete(RawAssets[i], RawDescriptions[j])
                 => \A k \in 1..Len(response.body.items) :
                       response.body.items[k].assetid # RawAssets[i].assetid

\* C5: the merge pairs each asset with the first description of equal
\* (classid, instanceid), emits at most one item per asset in asset order,
\* leaves out every asset without a matching description, so that the number
\* of assets left out is |assets| - |items|; an empty description list gives
\* an empty item list and still a success response.
C5_Reconciliation ==
    Succeeded =>
        /\ \A k \in 1..Len(items) :
              \E i \in AssetIndices(items[k]) :
                 \E j \in 1..Len(RawDescriptions) :
                    /\ IsFirstMatch(j, RawAssets[i])
                    /\ items[k].name = RawDescriptions[j].name
                    /\ items[k].name_color = RawDescriptions[j].name_color
                    /\ items[k].appid = RawDescriptions[j].appid
                    /\ items[k].amount = RawAssets[i].amount
        /\ \A k1, k2 \in 1..Len(items) :
              k1 < k2 =>
                 \A i1 \in AssetIndices(items[k1]) :
                    \A i2 \in AssetIndices(items[k2]) : i1 < i2
        /\ \A i \in 1..Len(RawAssets) :
              ~HasMatch(RawAssets[i])
              => \A k \in 1..Len(items) : items[k].assetid # RawAssets[i].assetid
        /\ Cardinality({i \in 1..Len(RawAssets) :
                           \A k \in 1..Len(items) :
                              items[k].assetid # RawAssets[i].assetid})
             = Len(RawAssets) - Len(items)
        /\ (RawDescriptions = <<>> => items = <<>> /\ response.body.items = <<>>)

\* C5 witness: a success in which one asset was left out for want of a
\* description and another was paired with the first of two differing matches
C5_Witness ==
    /\ Succeeded
    /\ Len(items) >= 1
    /\ \E i \in 1..Len(RawAssets) : ~HasMatch(RawAssets[i])
    /\ \E k \in 1..Len(items) :
          \E j1, j2 \in 1..Len(RawDescriptions) :
             /\ j1 < j2
             /\ IsFirstMatch(j1, items[k])
             /\ RawDescriptions[j2].classid = items[k].classid
             /\ RawDescriptions[j2].name # RawDescriptions[j1].name

\* C6: the count parameter of the outbound call and the echoed limit never
\* exceed 100, and are exactly 100 when the requested page size exceeds 100.
C6_LimitCapped ==
    outbound # <<>> =>
        /\ ~GreaterThan(ParseInt(outbound[1].count), 100)
        /\ (GreaterThan(RequestedLimit, 100)
            => outbound[1].count = <<"1", "0", "0">>)
        /\ (Succeeded =>
              /\ ~GreaterThan(response.body.limit, 100)
              /\ (GreaterThan(RequestedLimit, 100) => response.body.limit = Num(100)))

\* C6 witness: a success for a request that asked for more than 100 items
C6_Witness ==
    /\ Succeeded
    /\ GreaterThan(RequestedLimit, 100)
    /\ outbound[1].count = <<"1", "0", "0">>

\* C7: the outbound call carries start_assetid exactly when the requested page
\* is greater than 1 and the caller gave a non-empty cursor, its value is then
\* the caller's cursor, and a request for page 1 never carries it.
C7_StartMarker ==
    outbound # <<>> =>
        /\ (outbound[1].start_assetid # Undef
            <=> GreaterThan(RequestedPage, 1) /\ Truthy(request.start_assetid))
        /\ (outbound[1].start_assetid # Undef
            => outbound[1].start_assetid = request.start_assetid)
        /\ (RequestedPage = Num(1) => outbound[1].start_assetid = Undef)

\* C7 witness: page 2 with cursor "999" was sent with start_assetid "999"
C7_Witness ==
    /\ outbound # <<>>
    /\ RequestedPage = Num(2)
    /\ outbound[1].start_assetid = Str(<<"9", "9", "9">>)

C9_PassThroughWithDefaults ==
    Succeeded =>
        /\ response.body.has_more =
              (IF upstream.data.more_items = Undef THEN Bool(FALSE)
               ELSE upstream.data.more_items)
        /\ response.body.next_start_asset_id =
              (IF upstream.data.last_assetid = Undef THEN Null
               ELSE upstream.data.last_assetid)
        /\ response.body.total_count =
              (IF upstream.data.total_inventory_count = Undef THEN Num(0)
               ELSE upstream.data.total_inventory_count)
        /\ (~upstream.data.assets.present => response.body.items = <<>>)
        /\ (~upstream.data.descriptions.present => response.body.items = <<>>)

\* C10 as stated: at most one outbound call per request; a call that fails
\* (network error, non-2xx, or a 2xx body with an error field) ends the request
\* with status 500; a success follows exactly one call that returned 2xx with
\* no error field.
C10_SingleCallErrorField ==
    /\ Len(outbound) <= 1
    /\ (Done /\ outbound # <<>>
        /\ (upstream.kind = "reject" \/ ~upstream.ok \/ upstream.data.error # Undef)
        => response.status = 500 /\ response.body.success = Bool(FALSE))
    /\ (Succeeded =>
          /\ Len(outbound) = 1
          /\ upstream.kind = "http" /\ upstream.ok
          /\ upstream.data.error = Undef)

\* C10 amended: at most one outbound call per request; a call that fails
\* (network error, non-2xx, or a 2xx body whose error field is truthy) ends
\* the request with status 500; a success follows exactly one call that
\* returned 2xx with no truthy error field.
C10_SingleCallTruthyError ==
    /\ Len(outbound) <= 1
    /\ (Done /\ outbound # <<>>
        /\ (upstream.kind = "reject" \/ ~upstream.ok \/ Truthy(upstream.data.error))
        => response.status = 500 /\ response.body.success = Bool(FALSE))
    /\ (Succeeded =>
          /\ Len(outbound) = 1
          /\ upstream.kind = "http" /\ upstream.ok
          /\ ~Truthy(upstream.data.error))

\* C10 witness: the one call came back 2xx with a truthy error field and the
\* request ended with status 500
C10_Witness ==
    /\ Done
    /\ Len(outbound) = 1
    /\ upstream.kind = "http" /\ upstream.ok
    /\ Truthy(upstream.data.error)
    /\ response.status = 500

============================================================================
